---- MODULE Spec2Model ----
(***************************************************************************)
(* Client-side connection lifecycle and protocol dispatch of shapy:        *)
(* WebSocketService (connection manager + message dispatcher) and          *)
(* SessionStore (state store), together with the UI entry points that call *)
(* them and the browser / rxjs WebSocketSubject events that drive them.    *)
(***************************************************************************)
EXTENDS Integers, Sequences, FiniteSets, TLC

(* ------------------------------ bounds --------------------------------- *)
\* number of browser sockets that may exist at the same time
MaxLive == 2
\* number of reconnection timers that may be pending at the same time
MaxTimers == 1
\* number of message ids ever generated (crypto.randomUUID calls)
MaxIds == 3
\* length of the streaming accumulator
MaxStream == 2
\* number of chunks in one `tokens` envelope
MaxChunks == 2
\* number of reasoning_step envelopes delivered in one turn
MaxSteps == 3
\* number of REST requests of one kind (history, drawing context) in flight
\* at the same time
MaxFetches == 1

(* --------------------------- program constants ------------------------- *)
maxReconnectAttempts == 5
BaseDelay == 1000
MaxDelay == 30000

NULL == "<null>"
NoSocket == 0
DeadSocket == -1

ExhaustedMessage == "Connection failed after multiple attempts"
ServerErrorMessage == "server error"
ParseErrorMessage == "Unexpected token"

SockIds == 1..MaxLive
Sessions == {"s1", "s2"}
Tokens == {"t1", "t2"}
Versions == {1, 2}
Chunks == {"a", "b", "ab", ""}
Answers == {"a", "b"}
StepIndexes == {1, 2, 3}
StepStatuses == {"processing", "completed"}
ClarificationIds == {"q1"}

(* ------------------------------- state --------------------------------- *)
VARIABLES
  store,        \* SessionStore signals
  svc,          \* WebSocketService private fields
  socks,        \* browser sockets and the state of their WebSocketSubject
  timers,       \* pending reconnection timers (delays, in scheduling order)
  http,         \* history requests (GET session/<id>/messages) in flight that
                \* will complete
  loads,        \* drawing-context requests (SessionService.getContext) in flight
                \* that will complete
  accessToken,  \* localStorage['access_token']
  nextId,       \* source of fresh message ids
  calls,        \* operations executed by the last event, in order
  hist          \* history (ghost) variables used by the properties:
                \* scheduledSinceOpen: reconnections scheduled since the last open
                \* replacedInBackoff: the credential was replaced after the last
                \*   reconnection was scheduled, while a timer was pending
                \* orphaned: for each pending timer, whether disconnect() was
                \*   called after it was scheduled
                \* serverVersion: the context version last announced by an
                \*   envelope since the current session was selected
                \* chunkLog: chunks processed since the accumulator was emptied
                \* interrupted: "lost" once a socket has closed uncleanly
                \*   during the turn in progress, "reconnected" once a
                \*   connected envelope has been processed after that
                \* stepCount, stepOrder, stepLatest: reasoning steps of the turn

vars == <<store, svc, socks, timers, http, loads, accessToken, nextId, calls, hist>>

(* ------------------------------ helpers -------------------------------- *)
Min(a, b) == IF a < b THEN a ELSE b

RECURSIVE Pow2(_)
Pow2(n) == IF n = 0 THEN 1 ELSE 2 * Pow2(n - 1)

Has(seq, x) == \E i \in 1..Len(seq) : seq[i] = x

RemoveAt(seq, i) == [j \in 1..(Len(seq) - 1) |-> IF j < i THEN seq[j] ELSE seq[j + 1]]

(* ============================ SessionStore ============================= *)
canSendQuery(s) ==
  /\ s.wsStatus = "connected"
  /\ ~s.isAgentThinking
  /\ s.pendingClarification = NULL

\* a status change that keeps the last message when none is given (used to
\* test that leaving the error status clears it)
setConnectionStatusKeepingError(s, status, error) ==
  [s EXCEPT !.wsStatus = status, !.wsError = IF error = NULL THEN @ ELSE error]

setConnectionStatus(s, status, error) ==
  [s EXCEPT !.wsStatus = status, !.wsError = error]

\* (drawingObjects and contextMetadata are not modelled)
setDrawingContext(s, metadata) == [s EXCEPT !.contextVersion = metadata.context_version]

updateContextVersion(s, version) == [s EXCEPT !.contextVersion = version]

clearDrawingState(s) == [s EXCEPT !.contextVersion = 0]

addUserMessage(s, content, id) ==
  [s EXCEPT !.messages = Append(@,
      [id |-> id, role |-> "user", content |-> content,
       isStreaming |-> FALSE, followups |-> FALSE])]

\* a turn start that keeps the reasoning trace of the turn before (used to
\* test the reset of the trace)
startAssistantMessageKeepingTrace(s, id) ==
  [s EXCEPT !.messages = Append(@,
      [id |-> id, role |-> "assistant", content |-> "",
       isStreaming |-> TRUE, followups |-> FALSE]),
            !.isAgentThinking = TRUE,
            !.streamingContent = ""]

startAssistantMessage(s, id) ==
  [s EXCEPT !.messages = Append(@,
      [id |-> id, role |-> "assistant", content |-> "",
       isStreaming |-> TRUE, followups |-> FALSE]),
            !.isAgentThinking = TRUE,
            !.streamingContent = "",
            !.reasoningSteps = <<>>]

\* the accumulator grown at the wrong end (used to test arrival order)
prependToStreamingContent(s, chunk) ==
  [s EXCEPT !.streamingContent = chunk \o @]

appendToStreamingContent(s, chunk) ==
  [s EXCEPT !.streamingContent = @ \o chunk]

\* a finalize that adds the answer as a new message and leaves the
\* placeholder as it is (used to test finalization in place)
finalizeAsNewMessage(s, messageId, finalContent, metadata) ==
  [s EXCEPT !.messages = Append(@,
      [id |-> messageId, role |-> "assistant", content |-> finalContent,
       isStreaming |-> FALSE, followups |-> metadata]),
            !.isAgentThinking = FALSE,
            !.streamingContent = ""]

\* a finalize that leaves the thinking flag as it is (used to test that the
\* flag goes with a streaming placeholder)
finalizeKeepingThinking(s, messageId, finalContent, metadata) ==
  [s EXCEPT !.messages =
      [i \in 1..Len(@) |->
         IF @[i].id = messageId
           THEN [@[i] EXCEPT !.content = finalContent,
                             !.isStreaming = FALSE,
                             !.followups = metadata]
           ELSE @[i]],
            !.streamingContent = ""]

finalizeAssistantMessage(s, messageId, finalContent, metadata) ==
  [s EXCEPT !.messages =
      [i \in 1..Len(@) |->
         IF @[i].id = messageId
           THEN [@[i] EXCEPT !.content = finalContent,
                             !.isStreaming = FALSE,
                             !.followups = metadata]
           ELSE @[i]],
            !.isAgentThinking = FALSE,
            !.streamingContent = ""]

FindIndex(steps, stepIndex) ==
  IF \E i \in 1..Len(steps) : steps[i].stepIndex = stepIndex
    THEN CHOOSE i \in 1..Len(steps) :
           /\ steps[i].stepIndex = stepIndex
           /\ \A j \in 1..(i - 1) : steps[j].stepIndex # stepIndex
    ELSE 0

\* an entry added without looking for its index (used to test the upsert)
appendReasoningStep(s, step) ==
  [s EXCEPT !.reasoningSteps = Append(@, step)]

addReasoningStep(s, step) ==
  LET existing == FindIndex(s.reasoningSteps, step.stepIndex) IN
  IF existing >= 1
    THEN [s EXCEPT !.reasoningSteps = [@ EXCEPT ![existing] = step]]
    ELSE [s EXCEPT !.reasoningSteps = Append(@, step)]

setPendingClarification(s, request) ==
  IF request # NULL
    THEN [s EXCEPT !.pendingClarification = request,
                   !.isAgentThinking = FALSE]
    ELSE [s EXCEPT !.pendingClarification = NULL]

clearChatState(s) ==
  [s EXCEPT !.messages = <<>>,
            !.reasoningSteps = <<>>,
            !.isAgentThinking = FALSE,
            !.streamingContent = "",
            !.pendingClarification = NULL]

setCurrentSession(s, sessionId) ==
  LET s1 == [s EXCEPT !.currentSessionId = sessionId] IN
  IF sessionId = NULL THEN clearDrawingState(clearChatState(s1)) ELSE s1

\* (the list of sessions is not modelled)
removeSession(s, sessionId) ==
  IF s.currentSessionId = sessionId THEN setCurrentSession(s, NULL) ELSE s

clearAuth(s) == setCurrentSession(s, NULL)

(* ======================= rxjs WebSocketSubject ========================= *)
(* One record per browser socket.  ws is the socket's life cycle:          *)
(* connecting, open, closing (close() was called, close event pending),    *)
(* errored (error event delivered, close event pending), free (none).      *)
(* attached: the subject still refers to the socket (no _resetState yet).  *)
(* live: the service's subscription to the subject has not ended.          *)
(* completeQueued: complete() was called before the socket opened.         *)
(* queue: envelopes passed to next() before the socket opened.             *)
(* token: the credential in the URL the socket was created with.           *)
(* explicit (history): the socket belongs to a connection that was started *)
(* by an explicit connect() (not by a reconnection timer), has not opened  *)
(* and has not been torn down by disconnect().                             *)
FreeSock ==
  [ws |-> "free", attached |-> FALSE, live |-> FALSE, completeQueued |-> FALSE,
   queue |-> <<>>, token |-> NULL, explicit |-> FALSE]

HasFree(ss) == \E k \in SockIds : ss[k].ws = "free"

FreshSock(ss) ==
  CHOOSE k \in SockIds : ss[k].ws = "free" /\ \A j \in SockIds : j < k => ss[j].ws # "free"

Call(c, name) == [c EXCEPT !.calls = Append(@, name)]

\* WebSocketSubject._resetState: the subject forgets its socket; a handle
\* the service still holds refers to a subject without a socket from then on
ResetState(c, k) ==
  [c EXCEPT !.socks[k].attached = FALSE,
            !.svc.socket = IF @ = k THEN DeadSocket ELSE @]

\* WebSocketSubject.complete()
SubjectComplete(c, k) ==
  IF k = DeadSocket \/ k = NoSocket THEN c
  ELSE IF c.socks[k].ws = "connecting"
    THEN [c EXCEPT !.socks[k].completeQueued = TRUE]
  ELSE IF c.socks[k].ws = "open"
    THEN ResetState([c EXCEPT !.socks[k].ws = "closing"], k)
  ELSE c

\* WebSocketSubject.next(envelope)
SubjectNext(c, k, kind) ==
  IF k = DeadSocket \/ k = NoSocket THEN Call(c, "buffered_" \o kind)
  ELSE IF c.socks[k].ws = "open" THEN Call(c, "tx_" \o kind)
  ELSE IF c.socks[k].ws = "connecting" /\ ~c.socks[k].completeQueued
            /\ ~Has(c.socks[k].queue, kind)
    THEN [c EXCEPT !.socks[k].queue = Append(@, kind)]
  ELSE c

\* the subscriber's teardown once the service's subscription has ended
Teardown(c, k) ==
  LET c1 == [c EXCEPT !.socks[k].live = FALSE] IN
  IF c1.socks[k].attached
    THEN ResetState(
           IF c1.socks[k].ws \in {"open", "connecting"}
             THEN [c1 EXCEPT !.socks[k].ws = "closing"] ELSE c1, k)
    ELSE c1

RECURSIVE Flush(_, _)
Flush(c, q) ==
  IF q = <<>> THEN c ELSE Flush(Call(c, "tx_" \o Head(q)), Tail(q))

(* ========================== WebSocketService =========================== *)
stopPingInterval(c) == [c EXCEPT !.svc.pingInterval = FALSE]

startPingInterval(c) == [stopPingInterval(c) EXCEPT !.svc.pingInterval = TRUE]

\* ghost bookkeeping of disconnect(): every pending timer belongs to a
\* connection that has now been torn down
OrphanAll(flags) == [i \in 1..Len(flags) |-> TRUE]

\* ghost bookkeeping of disconnect(): no connection is left that an explicit
\* connect() started
TornDownAll(ss) == [k \in SockIds |-> [ss[k] EXCEPT !.explicit = FALSE]]

\* disconnect() that leaves the keepalive timer alone (used to test teardown)
disconnectKeepingPing(c) ==
  LET c1 == Call([c EXCEPT !.hist.orphaned = OrphanAll(@),
                                 !.socks = TornDownAll(@)], "disconnect")
      c2 == IF c1.svc.socket # NoSocket
              THEN [SubjectComplete(c1, c1.svc.socket) EXCEPT !.svc.socket = NoSocket]
              ELSE c1
  IN [c2 EXCEPT !.svc.currentSessionId = NULL,
                !.store = setConnectionStatus(@, "disconnected", NULL)]

disconnect(c) ==
  LET c1 == stopPingInterval(Call([c EXCEPT !.hist.orphaned = OrphanAll(@),
                                                 !.socks = TornDownAll(@)],
                                  "disconnect"))
      c2 == IF c1.svc.socket # NoSocket
              THEN [SubjectComplete(c1, c1.svc.socket) EXCEPT !.svc.socket = NoSocket]
              ELSE c1
  IN [c2 EXCEPT !.svc.currentSessionId = NULL,
                !.store = setConnectionStatus(@, "disconnected", NULL)]

\* connect() building its URL with the credential found at start, whatever
\* it is given (used to test which credential a reconnection uses)
connectInitialCredential(c, sessionId, token) ==
  LET c0 == Call(c, "connect")
      c1 == IF c0.svc.socket # NoSocket THEN disconnect(c0) ELSE c0
      k == FreshSock(c1.socks)
  IN [c1 EXCEPT !.svc.currentSessionId = sessionId,
                !.store = setConnectionStatus(@, "connecting", NULL),
                !.socks[k] = [ws |-> "connecting", attached |-> TRUE, live |-> TRUE,
                              completeQueued |-> FALSE, queue |-> <<>>,
                              token |-> "t1", explicit |-> FALSE],
                !.svc.socket = k]

connect(c, sessionId, token) ==
  LET c0 == Call(c, "connect")
      c1 == IF c0.svc.socket # NoSocket THEN disconnect(c0) ELSE c0
      k == FreshSock(c1.socks)
  IN [c1 EXCEPT !.svc.currentSessionId = sessionId,
                !.store = setConnectionStatus(@, "connecting", NULL),
                !.socks[k] = [ws |-> "connecting", attached |-> TRUE, live |-> TRUE,
                              completeQueued |-> FALSE, queue |-> <<>>,
                              token |-> token, explicit |-> FALSE],
                !.svc.socket = k]

\* the back-off without its ceiling (used to test the delay table)
UncappedDelay(attempts) == BaseDelay * Pow2(attempts)

ReconnectDelay(attempts) == Min(BaseDelay * Pow2(attempts), MaxDelay)

\* the reconnection policy without its session-binding test (used to test
\* that a torn-down manager does not retry)
handleDisconnectUnbound(c) ==
  IF c.svc.reconnectAttempts < maxReconnectAttempts
    THEN LET n == c.svc.reconnectAttempts + 1 IN
         Call([c EXCEPT !.svc.reconnectAttempts = n,
                        !.timers = Append(@, ReconnectDelay(n)),
                        !.hist.scheduledSinceOpen = @ + 1,
                        !.hist.replacedInBackoff = FALSE,
                        !.hist.orphaned = Append(@, FALSE)], "schedule")
    ELSE Call([c EXCEPT !.store = setConnectionStatus(@, "error", ExhaustedMessage)],
              "exhausted")

handleDisconnect(c) ==
  IF c.svc.reconnectAttempts < maxReconnectAttempts /\ c.svc.currentSessionId # NULL
    THEN LET n == c.svc.reconnectAttempts + 1 IN
         Call([c EXCEPT !.svc.reconnectAttempts = n,
                        !.timers = Append(@, ReconnectDelay(n)),
                        !.hist.scheduledSinceOpen = @ + 1,
                        !.hist.replacedInBackoff = FALSE,
                        !.hist.orphaned = Append(@, FALSE)], "schedule")
    ELSE Call([c EXCEPT !.store = setConnectionStatus(@, "error", ExhaustedMessage)],
              "exhausted")

openObserver(c) ==
  startPingInterval(Call([c EXCEPT !.svc.reconnectAttempts = 0,
                                   !.hist.scheduledSinceOpen = 0], "openObserver"))

\* a closeObserver that does not look at wasClean (used to test the clean
\* close)
closeObserverAlwaysRetry(c, wasClean) ==
  handleDisconnect(stopPingInterval(Call(c, "closeObserver")))

closeObserver(c, wasClean) ==
  LET c1 == stopPingInterval(Call(c, "closeObserver")) IN
  IF wasClean
    THEN [c1 EXCEPT !.store = setConnectionStatus(@, "disconnected", NULL)]
    ELSE handleDisconnect(
           [c1 EXCEPT !.hist.interrupted = IF c.store.isAgentThinking THEN "lost" ELSE @])

\* pipe(catchError(...)): the error ends the subscription
catchError(c, message) ==
  Call([c EXCEPT !.store = setConnectionStatus(@, "error", message)], "catchError")

\* ghost bookkeeping of a turn start, finalize or chat clear
ResetTurnHistory(h) ==
  [h EXCEPT !.chunkLog = <<>>, !.interrupted = "no"]

ResetSessionHistory(h) ==
  [h EXCEPT !.serverVersion = 0]

ResetStepHistory(h) ==
  [h EXCEPT !.stepCount = 0,
             !.stepOrder = <<>>,
            !.stepLatest = [i \in StepIndexes |-> [stepIndex |-> i, status |-> "none"]]]

\* sendQuery without its connection guard (used to test the silent drop)
sendQueryUnguarded(c, content) ==
  LET c1 == [c EXCEPT !.store = startAssistantMessage(
                                   addUserMessage(@, content, c.nextId), c.nextId + 1),
                      !.nextId = @ + 2,
                      !.hist = ResetStepHistory(ResetTurnHistory(@))]
  IN SubjectNext(Call(c1, "sendQuery"), c1.svc.socket, "query")

sendQuery(c, content) ==
  IF c.svc.socket = NoSocket \/ c.store.wsStatus # "connected" THEN c
  ELSE LET c1 == [c EXCEPT !.store = startAssistantMessage(
                                        addUserMessage(@, content, c.nextId), c.nextId + 1),
                           !.nextId = @ + 2,
                           !.hist = ResetStepHistory(ResetTurnHistory(@))]
       IN SubjectNext(Call(c1, "sendQuery"), c1.svc.socket, "query")

sendClarificationResponse(c, questionId) ==
  IF c.svc.socket = NoSocket \/ c.store.wsStatus # "connected" THEN c
  ELSE LET c1 == [c EXCEPT !.store = startAssistantMessage(
                                        setPendingClarification(@, NULL), c.nextId),
                           !.nextId = @ + 1,
                           !.hist = ResetStepHistory(ResetTurnHistory(@))]
       IN SubjectNext(Call(c1, "sendClarificationResponse"), c1.svc.socket,
                      "clarification_response")

\* sendCancel with the connection guard of sendQuery (used to test that
\* cancel does not depend on the status)
sendCancelWhenConnected(c) ==
  IF c.svc.socket = NoSocket \/ c.store.wsStatus # "connected" THEN c
  ELSE SubjectNext(Call(c, "sendCancel"), c.svc.socket, "cancel")

sendCancel(c) ==
  IF c.svc.socket = NoSocket THEN c
  ELSE SubjectNext(Call(c, "sendCancel"), c.svc.socket, "cancel")

(* ---------------------------- dispatcher ------------------------------- *)
\* the history request it issues completes in a later event, or never: that
\* is the network's choice, carried here with the envelope (fetch_completes)
handleConnected(c, payload) ==
  LET c1 == Call([c EXCEPT !.store = updateContextVersion(
                               setConnectionStatus(@, "connected", NULL),
                               payload.context_version),
                           !.hist.serverVersion = payload.context_version,
                           !.hist.interrupted = IF @ = "lost" THEN "reconnected" ELSE @],
                 "handleConnected")
  IN IF c1.svc.currentSessionId # NULL /\ payload.fetch_completes
       THEN [c1 EXCEPT !.http = @ + 1]
       ELSE c1

\* a failed history request treated as a transport error (used to test that
\* the failure stays at the call site)
historyErrorAsTransportError(c) ==
  handleDisconnect(catchError(Call(c, "warn"), NULL))

\* the error callback of the history request: console.warn
historyError(c) == Call(c, "warn")

\* SessionStore.loadMessages: seeds the conversation when it is empty
loadMessages(s, messages) ==
  IF s.messages = <<>> THEN [s EXCEPT !.messages = messages] ELSE s

\* the next callback of the history request
historyNext(c, response) ==
  IF Len(response) > 0
    THEN Call([c EXCEPT !.store = loadMessages(@, response)], "loadMessages")
    ELSE c

handleReasoningStep(c, payload) ==
  LET step == [stepIndex |-> payload.step_index, status |-> payload.status] IN
  Call([c EXCEPT !.store = addReasoningStep(@, step),
                 !.hist.stepCount = @ + 1,
                 !.hist.stepOrder = IF Has(@, step.stepIndex) THEN @
                                    ELSE Append(@, step.stepIndex),
                 !.hist.stepLatest[step.stepIndex] = step],
       "handleReasoningStep")

handleToken(c, payload) ==
  Call([c EXCEPT !.store = appendToStreamingContent(@, payload.chunk),
                 !.hist.chunkLog = Append(@, payload.chunk)],
       "handleToken")

\* chunks.join('') taken from the last chunk to the first (used to test the
\* order within one tokens envelope)
RECURSIVE JoinReversed(_)
JoinReversed(chunks) ==
  IF chunks = <<>> THEN "" ELSE JoinReversed(Tail(chunks)) \o Head(chunks)

RECURSIVE Join(_)
Join(chunks) == IF chunks = <<>> THEN "" ELSE Head(chunks) \o Join(Tail(chunks))

handleTokens(c, payload) ==
  LET combined == Join(payload.chunks) IN
  Call([c EXCEPT !.store = appendToStreamingContent(@, combined),
                 !.hist.chunkLog = @ \o payload.chunks],
       "handleTokens")

handleClarificationRequest(c, payload) ==
  Call([c EXCEPT !.store = setPendingClarification(@, payload.id)],
       "handleClarificationRequest")

handleCalculation(c, payload) == Call(c, "handleCalculation")

handleContextUpdated(c, payload) ==
  Call([c EXCEPT !.store = updateContextVersion(@, payload.version),
                 !.hist.serverVersion = payload.version],
       "handleContextUpdated")

handleResponseComplete(c, payload) ==
  LET messages == c.store.messages
      c0 == Call(c, "handleResponseComplete")
  IN IF Len(messages) > 0 /\ messages[Len(messages)].role = "assistant"
       THEN Call([c0 EXCEPT !.store = finalizeAssistantMessage(@,
                                 messages[Len(messages)].id, payload.final_answer,
                                 payload.suggested_followups),
                            !.hist = ResetTurnHistory(@)],
                 "finalizeAssistantMessage")
       ELSE c0

handleError(c, payload) ==
  LET c1 == Call([c EXCEPT !.store = setConnectionStatus(@, "error", payload.message)],
                 "handleError")
  IN IF ~payload.recoverable THEN disconnect(c1) ELSE c1

\* a dispatcher whose switch has a default branch that reports the envelope as
\* an error (used to test that unknown types are absorbed)
handleMessageStrict(c, message) ==
  LET c0 == Call(c, "broadcast") IN
  CASE message.type = "connected" -> handleConnected(c0, message)
    [] message.type = "reasoning_step" -> handleReasoningStep(c0, message)
    [] message.type = "token" -> handleToken(c0, message)
    [] message.type = "tokens" -> handleTokens(c0, message)
    [] message.type = "clarification_request" -> handleClarificationRequest(c0, message)
    [] message.type = "calculation" -> handleCalculation(c0, message)
    [] message.type = "context_updated" -> handleContextUpdated(c0, message)
    [] message.type = "response_complete" -> handleResponseComplete(c0, message)
    [] message.type = "error" -> handleError(c0, message)
    [] message.type = "pong" -> c0
    [] OTHER -> [c0 EXCEPT !.store = setConnectionStatus(@, "error", message.type)]

\* a dispatcher that emits on the broadcast channel after the handler has run
\* and not at all for pong (used to test the order of broadcast and dispatch)
handleMessageBroadcastLast(c, message) ==
  CASE message.type = "connected" -> Call(handleConnected(c, message), "broadcast")
    [] message.type = "reasoning_step" -> Call(handleReasoningStep(c, message), "broadcast")
    [] message.type = "token" -> Call(handleToken(c, message), "broadcast")
    [] message.type = "tokens" -> Call(handleTokens(c, message), "broadcast")
    [] message.type = "clarification_request"
         -> Call(handleClarificationRequest(c, message), "broadcast")
    [] message.type = "calculation" -> Call(handleCalculation(c, message), "broadcast")
    [] message.type = "context_updated" -> Call(handleContextUpdated(c, message), "broadcast")
    [] message.type = "response_complete"
         -> Call(handleResponseComplete(c, message), "broadcast")
    [] message.type = "error" -> Call(handleError(c, message), "broadcast")
    [] OTHER -> c

handleMessage(c, message) ==
  LET c0 == Call(c, "broadcast") IN
  CASE message.type = "connected" -> handleConnected(c0, message)
    [] message.type = "reasoning_step" -> handleReasoningStep(c0, message)
    [] message.type = "token" -> handleToken(c0, message)
    [] message.type = "tokens" -> handleTokens(c0, message)
    [] message.type = "clarification_request" -> handleClarificationRequest(c0, message)
    [] message.type = "calculation" -> handleCalculation(c0, message)
    [] message.type = "context_updated" -> handleContextUpdated(c0, message)
    [] message.type = "response_complete" -> handleResponseComplete(c0, message)
    [] message.type = "error" -> handleError(c0, message)
    [] OTHER -> c0

(* ------------------- WebSocketSubject socket callbacks ----------------- *)
onopen(c, k) ==
  IF ~c.socks[k].attached
    THEN [c EXCEPT !.socks[k].ws = "closing"]
    ELSE LET c1 == openObserver(c)
             c2 == Flush([c1 EXCEPT !.socks[k].ws = "open", !.socks[k].queue = <<>>,
                                    !.socks[k].explicit = FALSE],
                         c.socks[k].queue)
         IN IF c.socks[k].completeQueued
              THEN ResetState([c2 EXCEPT !.socks[k].ws = "closing"], k)
              ELSE c2

onerror(c, k) ==
  LET c1 == ResetState([c EXCEPT !.socks[k].ws = "errored"], k) IN
  IF c.socks[k].live THEN Teardown(catchError(c1, NULL), k) ELSE c1

onclose(c, k, wasClean) ==
  LET c1 == IF c.socks[k].attached THEN ResetState(c, k) ELSE c
      c2 == closeObserver(c1, wasClean)
      c3 == IF c.socks[k].live /\ ~wasClean THEN catchError(c2, NULL) ELSE c2
  IN [c3 EXCEPT !.socks[k] = FreeSock]

onmessageMalformed(c, k) == Teardown(catchError(c, ParseErrorMessage), k)

(* ======================= initial state and events ====================== *)
InitStore ==
  [currentSessionId |-> NULL, wsStatus |-> "disconnected", wsError |-> NULL,
   contextVersion |-> 0, messages |-> <<>>, reasoningSteps |-> <<>>,
   isAgentThinking |-> FALSE, streamingContent |-> "", pendingClarification |-> NULL]

InitHist ==
  ResetStepHistory([scheduledSinceOpen |-> 0, replacedInBackoff |-> FALSE,
                    orphaned |-> <<>>,
                    serverVersion |-> 0, chunkLog |-> <<>>, interrupted |-> "no",
                    stepCount |-> 0, stepOrder |-> <<>>, stepLatest |-> <<>>])

Init ==
  /\ store = InitStore
  /\ svc = [socket |-> NoSocket, reconnectAttempts |-> 0, pingInterval |-> FALSE,
            currentSessionId |-> NULL]
  /\ socks = [k \in SockIds |-> FreeSock]
  /\ timers = <<>>
  /\ http = 0
  /\ loads = 0
  /\ accessToken = "t1"
  /\ nextId = 1
  /\ calls = <<"init">>
  /\ hist = InitHist

Begin(tag) ==
  [store |-> store, svc |-> svc, socks |-> socks, timers |-> timers, http |-> http,
   loads |-> loads, nextId |-> nextId, calls |-> <<tag>>, hist |-> hist]

(* Socket identities carry no meaning: after every event the sockets are   *)
(* kept in a canonical order (the service's socket first, free slots last) *)
WsRank(ws) ==
  CASE ws = "connecting" -> 1 [] ws = "open" -> 2 [] ws = "closing" -> 3
    [] ws = "errored" -> 4 [] OTHER -> 9

SockKey(ss, cur, k) ==
  IF cur = k THEN 0
  ELSE 8 * WsRank(ss[k].ws) + (IF ss[k].live THEN 4 ELSE 0) + Len(ss[k].queue)

RECURSIVE InsertSorted(_, _, _)
InsertSorted(keys, seq, k) ==
  IF seq = <<>> THEN <<k>>
  ELSE IF keys[k] < keys[Head(seq)] THEN <<k>> \o seq
  ELSE <<Head(seq)>> \o InsertSorted(keys, Tail(seq), k)

RECURSIVE SortIds(_, _)
SortIds(keys, n) == IF n = 0 THEN <<>> ELSE InsertSorted(keys, SortIds(keys, n - 1), n)

Canonical(c) ==
  LET ss == c.socks
      cur == c.svc.socket
      keys == [k \in SockIds |-> SockKey(ss, cur, k)]
      p == SortIds(keys, MaxLive)
  IN IF \A i \in SockIds : p[i] = i THEN c
     ELSE [c EXCEPT !.socks = [i \in SockIds |-> ss[p[i]]],
                    !.svc.socket = IF @ \in SockIds
                                     THEN CHOOSE i \in SockIds : p[i] = @ ELSE @]

Assign(c) ==
  /\ store' = c.store
  /\ svc' = c.svc
  /\ socks' = c.socks
  /\ timers' = c.timers
  /\ http' = c.http
  /\ loads' = c.loads
  /\ nextId' = c.nextId
  /\ calls' = c.calls
  /\ hist' = c.hist

Commit(c0) == \E c1 \in {c0} : \E c2 \in {Canonical(c1)} : Assign(c2)

Receiving(k) == socks[k].ws = "open" /\ socks[k].live

\* a call of sendQuery / sendClarificationResponse that passes its guard
WillSend == svc.socket # NoSocket /\ store.wsStatus = "connected"

(* --------------------------- socket events ----------------------------- *)
SocketOpen(k) ==
  /\ socks[k].ws = "connecting"
  /\ Commit(onopen(Begin("open"), k))
  /\ UNCHANGED accessToken

SocketError(k) ==
  /\ socks[k].ws \in {"connecting", "open", "closing"}
  /\ Commit(onerror(Begin("error"), k))
  /\ UNCHANGED accessToken

\* limit: the number of reconnection timers that may be pending after it
SocketCloseWithin(k, wasClean, limit) ==
  /\ socks[k].ws \in {"open", "closing", "errored"}
  /\ wasClean => socks[k].ws # "errored"
  /\ LET c == onclose(Begin(IF wasClean THEN "cleanClose" ELSE "uncleanClose"), k, wasClean)
     IN /\ Len(c.timers) <= limit
        /\ Commit(c)
  /\ UNCHANGED accessToken

SocketClose(k, wasClean) == SocketCloseWithin(k, wasClean, MaxTimers)

(* ------------------------------ timers --------------------------------- *)
TimerFire(i) ==
  /\ i \in 1..Len(timers)
  /\ \A j \in 1..(i - 1) : timers[j] > timers[i]
  /\ LET c0 == [Begin("timer") EXCEPT !.timers = RemoveAt(@, i),
                                      !.hist.orphaned = RemoveAt(@, i)] IN
     IF accessToken # NULL /\ svc.currentSessionId # NULL
       THEN /\ HasFree(socks)
            /\ Commit(connect(c0, svc.currentSessionId, accessToken))
       ELSE Commit(c0)
  /\ UNCHANGED accessToken

PingFire ==
  /\ svc.pingInterval
  /\ LET c0 == Begin("pingTick") IN
     IF svc.socket # NoSocket
       THEN Commit(SubjectNext(c0, svc.socket, "ping"))
       ELSE Commit(c0)
  /\ UNCHANGED accessToken

(* -------------------------- inbound frames ----------------------------- *)
Recv(k, message) ==
  /\ Receiving(k)
  /\ Commit(handleMessage(Begin("message"), message))
  /\ UNCHANGED accessToken

\* a connected envelope whose history request never completes
RecvConnected(k, v) ==
  Recv(k, [type |-> "connected", context_version |-> v, fetch_completes |-> FALSE])

\* a connected envelope whose history request completes later
RecvConnectedFetching(k, v) ==
  /\ http < MaxFetches
  /\ Recv(k, [type |-> "connected", context_version |-> v, fetch_completes |-> TRUE])

(* -------------------------- history requests --------------------------- *)
HistoryResponses ==
  {<<>>, <<[id |-> 0, role |-> "user", content |-> "q", isStreaming |-> FALSE,
            followups |-> FALSE]>>}

HistoryLoaded(response) ==
  /\ http > 0
  /\ Commit(historyNext([Begin("historyNext") EXCEPT !.http = @ - 1], response))
  /\ UNCHANGED accessToken

HistoryFailed ==
  /\ http > 0
  /\ Commit(historyError([Begin("historyError") EXCEPT !.http = @ - 1]))
  /\ UNCHANGED accessToken

RecvReasoningStep(k, i, st) ==
  /\ Receiving(k)
  /\ hist.stepCount < MaxSteps
  /\ Recv(k, [type |-> "reasoning_step", step_index |-> i, status |-> st])

RecvToken(k, chunk) ==
  /\ Receiving(k)
  /\ Len(store.streamingContent) + Len(chunk) <= MaxStream
  /\ Len(hist.chunkLog) < MaxStream
  /\ Recv(k, [type |-> "token", chunk |-> chunk])

ChunkLists ==
  UNION {[1..n -> Chunks] : n \in 0..MaxChunks}

RecvTokens(k, chunks) ==
  /\ Receiving(k)
  /\ Len(store.streamingContent) + Len(Join(chunks)) <= MaxStream
  /\ Len(hist.chunkLog) + Len(chunks) <= MaxStream
  /\ Recv(k, [type |-> "tokens", chunks |-> chunks])

RecvClarificationRequest(k, q) == Recv(k, [type |-> "clarification_request", id |-> q])

RecvCalculation(k) == Recv(k, [type |-> "calculation"])

RecvContextUpdated(k, v) == Recv(k, [type |-> "context_updated", version |-> v])

\* connected and context_updated envelopes of a server whose versions never
\* decrease within a session
RecvConnectedOrdered(k, v) ==
  /\ v >= hist.serverVersion
  /\ RecvConnected(k, v)

RecvContextUpdatedOrdered(k, v) ==
  /\ v >= hist.serverVersion
  /\ RecvContextUpdated(k, v)

RecvResponseComplete(k, answer, followups) ==
  Recv(k, [type |-> "response_complete", final_answer |-> answer,
           suggested_followups |-> followups])

RecvError(k, recoverable) ==
  Recv(k, [type |-> "error", message |-> ServerErrorMessage, recoverable |-> recoverable])

RecvPong(k) == Recv(k, [type |-> "pong"])

RecvUnknown(k) ==
  /\ Receiving(k)
  /\ Commit(handleMessage(Begin("unknown"), [type |-> "unknown"]))
  /\ UNCHANGED accessToken

RecvMalformed(k) ==
  /\ Receiving(k)
  /\ Commit(onmessageMalformed(Begin("malformed"), k))
  /\ UNCHANGED accessToken

(* ------------------------------ UI events ------------------------------ *)
\* ChatPanelComponent.canSend
canSend == canSendQuery(store)

\* ChatPanelComponent.lastMessageFollowups is non-empty
HasFollowups ==
  /\ Len(store.messages) > 0
  /\ store.messages[Len(store.messages)].role = "assistant"
  /\ store.messages[Len(store.messages)].followups

SubmitQuery(tag) ==
  /\ WillSend => nextId + 1 <= MaxIds
  /\ Commit(sendQuery(Begin(tag), "q"))
  /\ UNCHANGED accessToken

\* ChatPanelComponent.send: the input box
Send == canSend /\ SubmitQuery("send")

\* the suggested-question buttons of the empty conversation
SuggestedQuestion ==
  /\ Len(store.messages) = 0 /\ ~store.isAgentThinking
  /\ SubmitQuery("suggested")

\* the follow-up buttons under the last answer
Followup ==
  /\ HasFollowups /\ ~store.isAgentThinking
  /\ SubmitQuery("followup")

\* ChatPanelComponent.handleClarificationResponse: the clarification widget,
\* rendered with the message list (not with the empty-conversation panel)
ClarificationRespond ==
  /\ ~(Len(store.messages) = 0 /\ ~store.isAgentThinking)
  /\ store.pendingClarification # NULL
  /\ WillSend => nextId <= MaxIds
  /\ Commit(sendClarificationResponse(Begin("respond"), store.pendingClarification))
  /\ UNCHANGED accessToken

\* WebSocketService.sendCancel, public, callable in any state
SendCancel ==
  /\ Commit(sendCancel(Begin("cancel")))
  /\ UNCHANGED accessToken

\* ChatShellComponent.selectSessionById; its drawing-context request
\* completes in a later event, or never: that is the network's choice
\* (load_completes)
selectSessionById(c, sessionId, token, load_completes) ==
  LET c1 == disconnect(c)
      c2 == [c1 EXCEPT !.store = clearDrawingState(clearChatState(
                                    setCurrentSession(@, sessionId))),
                       !.hist = ResetSessionHistory(ResetStepHistory(ResetTurnHistory(@)))]
      c3 == IF token # NULL
              THEN LET c4 == connect(c2, sessionId, token) IN
                   [c4 EXCEPT !.socks[c4.svc.socket].explicit = TRUE]
              ELSE c2
  IN IF load_completes THEN [c3 EXCEPT !.loads = @ + 1] ELSE c3

\* a session selected, its drawing-context request never completes
SelectSession(sessionId) ==
  /\ store.currentSessionId # sessionId
  /\ accessToken # NULL => HasFree(socks)
  /\ Commit(selectSessionById(Begin("select"), sessionId, accessToken, FALSE))
  /\ UNCHANGED accessToken

\* a session selected, its drawing-context request completes later
SelectSessionLoading(sessionId) ==
  /\ store.currentSessionId # sessionId
  /\ accessToken # NULL => HasFree(socks)
  /\ loads < MaxFetches
  /\ Commit(selectSessionById(Begin("select"), sessionId, accessToken, TRUE))
  /\ UNCHANGED accessToken

\* ChatShellComponent.loadSessionContext: the next callback
ContextLoaded(version) ==
  /\ loads > 0
  /\ Commit(Call([Begin("contextNext") EXCEPT
                    !.loads = @ - 1,
                    !.store = setDrawingContext(@, [context_version |-> version])],
                  "setDrawingContext"))
  /\ UNCHANGED accessToken

\* ChatShellComponent.loadSessionContext: the error callback
ContextFailed ==
  /\ loads > 0
  /\ Commit(Call([Begin("contextError") EXCEPT !.loads = @ - 1,
                                                !.store = clearDrawingState(@)],
                  "clearDrawingState"))
  /\ UNCHANGED accessToken

\* ChatShellComponent.ngOnDestroy / logout: wsService.disconnect()
Disconnect ==
  /\ Commit(disconnect(Begin("teardown")))
  /\ UNCHANGED accessToken

\* AuthService.setTokens (login, token refresh)
SetTokens(token) ==
  /\ accessToken # token
  /\ accessToken' = token
  /\ Commit([Begin("setTokens") EXCEPT !.hist.replacedInBackoff = @ \/ timers # <<>>])

\* AuthService.handleLogout: clearTokens, store.clearAuth
HandleLogout ==
  /\ accessToken # NULL \/ store.currentSessionId # NULL
  /\ accessToken' = NULL
  /\ Commit([Begin("logout") EXCEPT
               !.store = clearAuth(@),
               !.hist = ResetSessionHistory(ResetStepHistory(ResetTurnHistory(@)))])

\* SessionService.deleteSession: the DELETE request of a session has been
\* answered (ChatShellComponent.deleteSession issued it at some earlier time)
DeleteSession(sessionId) ==
  /\ Commit([Begin("delete") EXCEPT
               !.store = removeSession(@, sessionId),
               !.hist = IF store.currentSessionId = sessionId
                          THEN ResetSessionHistory(ResetStepHistory(ResetTurnHistory(@)))
                          ELSE @])
  /\ UNCHANGED accessToken

Next ==
  \/ \E k \in SockIds : SocketOpen(k)
  \/ \E k \in SockIds : SocketError(k)
  \/ \E k \in SockIds, wasClean \in BOOLEAN : SocketClose(k, wasClean)
  \/ \E i \in 1..MaxTimers : TimerFire(i)
  \/ PingFire
  \/ \E k \in SockIds, v \in Versions : RecvConnected(k, v)
  \/ \E k \in SockIds, v \in Versions : RecvConnectedFetching(k, v)
  \/ \E response \in HistoryResponses : HistoryLoaded(response)
  \/ HistoryFailed
  \/ \E k \in SockIds, i \in StepIndexes, st \in StepStatuses : RecvReasoningStep(k, i, st)
  \/ \E k \in SockIds, chunk \in Chunks : RecvToken(k, chunk)
  \/ \E k \in SockIds, chunks \in ChunkLists : RecvTokens(k, chunks)
  \/ \E k \in SockIds, q \in ClarificationIds : RecvClarificationRequest(k, q)
  \/ \E k \in SockIds : RecvCalculation(k)
  \/ \E k \in SockIds, v \in Versions : RecvContextUpdated(k, v)
  \/ \E k \in SockIds, answer \in Answers, followups \in BOOLEAN :
        RecvResponseComplete(k, answer, followups)
  \/ \E k \in SockIds, recoverable \in BOOLEAN : RecvError(k, recoverable)
  \/ \E k \in SockIds : RecvPong(k)
  \/ \E k \in SockIds : RecvUnknown(k)
  \/ \E k \in SockIds : RecvMalformed(k)
  \/ Send
  \/ SuggestedQuestion
  \/ Followup
  \/ ClarificationRespond
  \/ SendCancel
  \/ \E sessionId \in Sessions : SelectSession(sessionId)
  \/ \E sessionId \in Sessions : SelectSessionLoading(sessionId)
  \/ \E version \in Versions : ContextLoaded(version)
  \/ ContextFailed
  \/ Disconnect
  \/ \E token \in Tokens : SetTokens(token)
  \/ HandleLogout
  \/ \E sessionId \in Sessions : DeleteSession(sessionId)

Spec == Init /\ [][Next]_vars

(* The connection life cycle alone: sockets, timers, keepalive, sessions,  *)
(* credentials and the envelopes that act on the connection.  No query is  *)
(* submitted and no chat envelope arrives, so the chat signals stay as     *)
(* constructed.  The credential stays as found at start.                   *)
NextConn ==
  \/ \E k \in SockIds : SocketOpen(k)
  \/ \E k \in SockIds : SocketError(k)
  \/ \E k \in SockIds, wasClean \in BOOLEAN : SocketClose(k, wasClean)
  \/ \E i \in 1..MaxTimers : TimerFire(i)
  \/ PingFire
  \/ \E k \in SockIds : RecvConnected(k, 1)
  \/ \E k \in SockIds, recoverable \in BOOLEAN : RecvError(k, recoverable)
  \/ \E k \in SockIds : RecvMalformed(k)
  \/ \E sessionId \in Sessions : SelectSession(sessionId)
  \/ Disconnect

SpecConn == Init /\ [][NextConn]_vars

(* The streaming accumulator: token and tokens envelopes between the       *)
(* events that start a turn (a submitted query), end it (response_complete)*)
(* or clear the conversation (a session switch), over connections that     *)
(* open and are closed cleanly.                                            *)
NextTokens ==
  \/ \E k \in SockIds : SocketOpen(k)
  \/ \E k \in SockIds : SocketClose(k, TRUE)
  \/ \E k \in SockIds : RecvConnected(k, 1)
  \/ \E k \in SockIds, chunk \in Chunks : RecvToken(k, chunk)
  \/ \E k \in SockIds, chunks \in ChunkLists : RecvTokens(k, chunks)
  \/ \E k \in SockIds : RecvResponseComplete(k, "a", FALSE)
  \/ Send
  \/ \E sessionId \in Sessions : SelectSession(sessionId)

SpecTokens == Init /\ [][NextTokens]_vars

(* The reasoning trace: reasoning_step envelopes between the same events.  *)
NextSteps ==
  \/ \E k \in SockIds : SocketOpen(k)
  \/ \E k \in SockIds : SocketClose(k, TRUE)
  \/ \E k \in SockIds : RecvConnected(k, 1)
  \/ \E k \in SockIds, i \in StepIndexes, st \in StepStatuses : RecvReasoningStep(k, i, st)
  \/ \E k \in SockIds : RecvResponseComplete(k, "a", FALSE)
  \/ Send
  \/ \E sessionId \in Sessions : SelectSession(sessionId)

SpecSteps == Init /\ [][NextSteps]_vars

(* Turns: every way to submit a query or answer a clarification, and the   *)
(* envelopes that open, suspend and finish a turn.                         *)
NextTurns ==
  \/ \E k \in SockIds : SocketOpen(k)
  \/ \E k \in SockIds : SocketClose(k, TRUE)
  \/ \E k \in SockIds : RecvConnected(k, 1)
  \/ \E k \in SockIds, q \in ClarificationIds : RecvClarificationRequest(k, q)
  \/ \E k \in SockIds, answer \in Answers, followups \in BOOLEAN :
        RecvResponseComplete(k, answer, followups)
  \/ \E k \in SockIds : RecvCalculation(k)
  \/ \E k \in SockIds : RecvUnknown(k)
  \/ Send
  \/ SuggestedQuestion
  \/ Followup
  \/ ClarificationRespond
  \/ \E sessionId \in Sessions : SelectSession(sessionId)
  \/ HandleLogout

SpecTurns == Init /\ [][NextTurns]_vars

(* The dispatcher: one envelope of every server type, known or not, over   *)
(* connection of one session, which opens and is closed cleanly, within    *)
(* turns started from the input box.                                       *)
NextDispatch ==
  \/ \E k \in SockIds : SocketOpen(k)
  \/ \E k \in SockIds : SocketClose(k, TRUE)
  \/ \E k \in SockIds : RecvConnected(k, 1)
  \/ \E k \in SockIds : RecvReasoningStep(k, 1, "processing")
  \/ \E k \in SockIds : RecvToken(k, "a")
  \/ \E k \in SockIds : RecvTokens(k, <<"a", "b">>)
  \/ \E k \in SockIds, q \in ClarificationIds : RecvClarificationRequest(k, q)
  \/ \E k \in SockIds : RecvCalculation(k)
  \/ \E k \in SockIds : RecvContextUpdated(k, 2)
  \/ \E k \in SockIds : RecvResponseComplete(k, "a", FALSE)
  \/ \E k \in SockIds, recoverable \in BOOLEAN : RecvError(k, recoverable)
  \/ \E k \in SockIds : RecvPong(k)
  \/ \E k \in SockIds : RecvUnknown(k)
  \/ Send
  \/ SelectSession("s1")

SpecDispatch == Init /\ [][NextDispatch]_vars

(* Credentials: the connections of one session dropping uncleanly and      *)
(* being retried by reconnection timers, while the credential store is     *)
(* written (login, refresh) and cleared (logout).                          *)
NextCred ==
  \/ \E k \in SockIds : SocketOpen(k)
  \/ \E k \in SockIds : SocketClose(k, FALSE)
  \/ \E i \in 1..MaxTimers : TimerFire(i)
  \/ SelectSession("s1")
  \/ \E token \in Tokens : SetTokens(token)
  \/ HandleLogout

SpecCred == Init /\ [][NextCred]_vars

(* History requests: the connections of one session open, drop and are     *)
(* retried; their connected envelopes start history requests that are      *)
(* answered or fail at any later moment, with turns in between.            *)
NextHistory ==
  \/ \E k \in SockIds : SocketOpen(k)
  \/ \E k \in SockIds : SocketError(k)
  \/ \E k \in SockIds, wasClean \in BOOLEAN : SocketClose(k, wasClean)
  \/ \E i \in 1..MaxTimers : TimerFire(i)
  \/ \E k \in SockIds : RecvConnectedFetching(k, 1)
  \/ \E response \in HistoryResponses : HistoryLoaded(response)
  \/ HistoryFailed
  \/ \E k \in SockIds : RecvResponseComplete(k, "a", FALSE)
  \/ Send
  \/ SelectSession("s1")
  \/ HandleLogout

SpecHistory == Init /\ [][NextHistory]_vars

(* Cancel: sendCancel called at any moment of the connection life cycle    *)
(* (connecting, open, failed, retried, superseded), in every connection    *)
(* status.                                                                 *)
NextCancel ==
  \/ \E k \in SockIds : SocketOpen(k)
  \/ \E k \in SockIds : SocketError(k)
  \/ \E k \in SockIds, wasClean \in BOOLEAN : SocketClose(k, wasClean)
  \/ \E i \in 1..MaxTimers : TimerFire(i)
  \/ \E k \in SockIds : RecvConnected(k, 1)
  \/ \E k \in SockIds : RecvError(k, TRUE)
  \/ SendCancel
  \/ \E sessionId \in Sessions : SelectSession(sessionId)

SpecCancel == Init /\ [][NextCancel]_vars

(* Drawing context: one session is selected and stays current; its         *)
(* connections open, drop and are retried, the server announces versions   *)
(* that never decrease, and the REST request for the drawing context is    *)
(* answered or fails at any later moment.                                  *)
NextContext ==
  \/ \E k \in SockIds : SocketOpen(k)
  \/ \E k \in SockIds : SocketError(k)
  \/ \E k \in SockIds, wasClean \in BOOLEAN : SocketClose(k, wasClean)
  \/ \E i \in 1..MaxTimers : TimerFire(i)
  \/ \E k \in SockIds, v \in Versions : RecvConnectedOrdered(k, v)
  \/ \E k \in SockIds, v \in Versions : RecvContextUpdatedOrdered(k, v)
  \/ SelectSessionLoading("s1")
  \/ \E version \in Versions : ContextLoaded(version)
  \/ ContextFailed

SpecContext == Init /\ [][NextContext]_vars

(* Overlapping reconnections: the connection life cycle with room for one  *)
(* reconnection timer more than the other specifications allow, so that a  *)
(* timer can be scheduled while another one is pending.                    *)
NextTimers ==
  \/ \E k \in SockIds : SocketOpen(k)
  \/ \E k \in SockIds : SocketError(k)
  \/ \E k \in SockIds, wasClean \in BOOLEAN : SocketCloseWithin(k, wasClean, MaxTimers + 1)
  \/ \E i \in 1..(MaxTimers + 1) : TimerFire(i)
  \/ \E sessionId \in Sessions : SelectSession(sessionId)
  \/ Disconnect

SpecTimers == Init /\ [][NextTimers]_vars

(* Reconnection under fairness: the connections of one session fail, drop  *)
(* and are retried while the user may log out.  Timers that are pending    *)
(* eventually fire, a connecting socket eventually opens or fails, a       *)
(* socket that is closing or has failed eventually delivers its close      *)
(* event, and an open socket that stays open eventually delivers the       *)
(* connected envelope.  Faults and user actions are not forced.            *)
SocketSettle(k) ==
  /\ socks[k].ws \in {"closing", "errored"}
  /\ \E wasClean \in BOOLEAN : SocketClose(k, wasClean)

NextLive ==
  \/ \E k \in SockIds : SocketOpen(k)
  \/ \E k \in SockIds : SocketError(k)
  \/ \E k \in SockIds, wasClean \in BOOLEAN : SocketClose(k, wasClean)
  \/ \E i \in 1..MaxTimers : TimerFire(i)
  \/ \E k \in SockIds : RecvConnected(k, 1)
  \/ SelectSession("s1")
  \/ HandleLogout

Fairness ==
  /\ \A i \in 1..MaxTimers : WF_vars(TimerFire(i))
  /\ \A k \in SockIds : WF_vars(SocketOpen(k) \/ (socks[k].ws = "connecting" /\ SocketError(k)))
  /\ \A k \in SockIds : WF_vars(SocketSettle(k))
  /\ \A k \in SockIds : WF_vars(RecvConnected(k, 1))

SpecLive == Init /\ [][NextLive]_vars /\ Fairness

(* Recoverable errors: error envelopes, recoverable or not, on the         *)
(* connections of the sessions, with the keepalive running and every way  *)
(* to submit a query.                                                      *)
NextRecover ==
  \/ \E k \in SockIds : SocketOpen(k)
  \/ \E k \in SockIds : SocketClose(k, TRUE)
  \/ PingFire
  \/ \E k \in SockIds : RecvConnected(k, 1)
  \/ \E k \in SockIds, followups \in BOOLEAN : RecvResponseComplete(k, "a", followups)
  \/ \E k \in SockIds, recoverable \in BOOLEAN : RecvError(k, recoverable)
  \/ Send
  \/ SuggestedQuestion
  \/ Followup
  \/ \E sessionId \in Sessions : SelectSession(sessionId)

SpecRecover == Init /\ [][NextRecover]_vars

(* Sessions: sessions are selected and deleted and the user logs out,      *)
(* while the connections open, receive their connected envelope and are    *)
(* closed cleanly.                                                         *)
NextSessions ==
  \/ \E k \in SockIds : SocketOpen(k)
  \/ \E k \in SockIds : SocketClose(k, TRUE)
  \/ \E k \in SockIds : RecvConnected(k, 1)
  \/ \E sessionId \in Sessions : SelectSession(sessionId)
  \/ \E sessionId \in Sessions : DeleteSession(sessionId)
  \/ \E token \in Tokens : SetTokens(token)
  \/ HandleLogout
  \/ Disconnect

SpecSessions == Init /\ [][NextSessions]_vars

(* ============================== properties ============================= *)
LastMessage == store.messages[Len(store.messages)]

StreamingAssistants ==
  {i \in 1..Len(store.messages) :
     store.messages[i].role = "assistant" /\ store.messages[i].isStreaming}

(* C1: in every reachable state at most one message of the conversation is *)
(* an assistant message with isStreaming = TRUE, whatever queries,         *)
(* clarification answers and envelopes have been processed.                *)
C1_AtMostOneStreaming == Cardinality(StreamingAssistants) <= 1

(* C2: for consecutive unclean closes with no successful open in between,  *)
(* the delay scheduled for reconnection attempt n (n = 1..5) is            *)
(* min(1000 * 2^n, 30000) ms: 2000, 4000, 8000, 16000, 30000.              *)
DelayTable == <<2000, 4000, 8000, 16000, 30000>>

C2_DelaySequence ==
  Has(calls, "schedule") =>
    /\ hist.scheduledSinceOpen \in 1..Len(DelayTable)
    /\ timers # <<>>
    /\ timers[Len(timers)] = DelayTable[hist.scheduledSinceOpen]

\* the fifth attempt in a row has just been scheduled, at the ceiling
C2_Witness ==
  /\ Has(calls, "schedule")
  /\ hist.scheduledSinceOpen = 5
  /\ timers[Len(timers)] = 30000

(* C3: once 5 reconnection attempts have been made without a successful    *)
(* open, an unclean close schedules no further attempt and the store ends  *)
(* the event with wsStatus = error and the exhaustion message as wsError.  *)
C3_Exhaustion ==
  [][(hist.scheduledSinceOpen = maxReconnectAttempts /\ Head(calls') = "uncleanClose")
       => /\ ~Has(calls', "schedule")
          /\ store'.wsStatus = "error"
          /\ store'.wsError = ExhaustedMessage]_vars

(* C4: after disconnect() was called while a reconnection delay was        *)
(* pending (the service holds no session and the timer is still pending),  *)
(* the timer causes no connect() call and no keepalive ping is transmitted.*)
C4_DisconnectCancels ==
  [][(svc.currentSessionId = NULL /\ timers # <<>>)
       => /\ ~Has(calls', "tx_ping")
          /\ Head(calls') = "timer" => ~Has(calls', "connect")]_vars

(* C5: a connected envelope leaves the reconnect-attempt counter at 0, so  *)
(* that an unclean close right after it schedules the first delay, 2000 ms.*)
C5_ConnectedResets ==
  [][/\ Has(calls', "handleConnected") => svc'.reconnectAttempts = 0
     /\ (Has(calls, "handleConnected") /\ Has(calls', "schedule"))
          => timers'[Len(timers')] = 2000]_vars

(* C6: the chunks processed since the accumulator was last emptied (turn   *)
(* start, finalize or chat clear) are found in streamingContent            *)
(* concatenated in arrival order.                                          *)
RECURSIVE InArrivalOrder(_)
InArrivalOrder(log) ==
  IF log = <<>> THEN ""
  ELSE InArrivalOrder(SubSeq(log, 1, Len(log) - 1)) \o log[Len(log)]

C6_TokensConcatenate == store.streamingContent = InArrivalOrder(hist.chunkLog)

\* two token envelopes, "a" then "b", have been processed in one turn
C6_Witness ==
  /\ Has(calls, "handleToken")
  /\ store.isAgentThinking
  /\ hist.chunkLog = <<"a", "b">>
  /\ store.streamingContent = "ab"

(* C7: processing one tokens envelope leaves the store exactly as          *)
(* processing one token envelope per chunk, in list order, would have,     *)
(* whatever the accumulator held before.                                   *)
RECURSIVE TokenByToken(_, _)
TokenByToken(c, chunks) ==
  IF chunks = <<>> THEN c
  ELSE TokenByToken(handleToken(c, [type |-> "token", chunk |-> Head(chunks)]),
                    Tail(chunks))

C7_TokensAsTokenSequence ==
  [][Has(calls', "handleTokens")
       => LET chunks == SubSeq(hist'.chunkLog, Len(hist.chunkLog) + 1,
                               Len(hist'.chunkLog))
          IN store' = TokenByToken(Begin("message"), chunks).store]_vars

\* a tokens envelope has been processed and the accumulator holds two chunks
C7_Witness ==
  /\ Has(calls, "handleTokens")
  /\ hist.chunkLog = <<"b", "a">>
  /\ store.streamingContent = "ba"

(* C8: the reasoning trace holds one entry per step index delivered in the *)
(* turn, each equal to the step delivered last for its index, in the order *)
(* in which the indexes first arrived.                                     *)
C8_ReasoningUpsert ==
  /\ Len(store.reasoningSteps) = Len(hist.stepOrder)
  /\ \A i \in 1..Len(store.reasoningSteps) :
        /\ store.reasoningSteps[i].stepIndex = hist.stepOrder[i]
        /\ store.reasoningSteps[i] = hist.stepLatest[hist.stepOrder[i]]
  /\ \A i, j \in 1..Len(store.reasoningSteps) :
        store.reasoningSteps[i].stepIndex = store.reasoningSteps[j].stepIndex => i = j

\* three deliveries of two indexes: 2 arrived before 1, one of them twice
C8_Witness ==
  /\ Has(calls, "handleReasoningStep")
  /\ hist.stepCount = 3
  /\ store.reasoningSteps = << [stepIndex |-> 2, status |-> "completed"],
                               [stepIndex |-> 1, status |-> "processing"] >>

(* C9: a response_complete envelope processed when the last message is not *)
(* an assistant message with isStreaming = TRUE (empty list, a user        *)
(* message, or an assistant message already finalized) leaves messages     *)
(* unchanged.                                                              *)
LastIsStreamingAssistant ==
  /\ Len(store.messages) > 0
  /\ LastMessage.role = "assistant"
  /\ LastMessage.isStreaming

C9_ResponseCompleteFrame ==
  [][(Has(calls', "handleResponseComplete") /\ ~LastIsStreamingAssistant)
       => store'.messages = store.messages]_vars

(* C10: in every reachable state a pending clarification and the agent-    *)
(* thinking flag never hold together.                                      *)
C10_ClarificationExcludesThinking ==
  ~(store.pendingClarification # NULL /\ store.isAgentThinking)

(* C11: a query is submitted (user message, assistant placeholder, query   *)
(* envelope) only from states where canSendQuery holds: connected, agent   *)
(* not thinking, no clarification pending.                                 *)
C11_SubmitOnlyWhenCanSend ==
  [][Has(calls', "sendQuery") => canSendQuery(store)]_vars

(* C12: sendQuery and sendClarificationResponse called while wsStatus is   *)
(* not connected, or without a socket handle, execute nothing: no envelope *)
(* is transmitted or buffered and the whole store is left as it was.       *)
SubmitTags == {"send", "suggested", "followup", "respond"}

C12_SilentDrop ==
  [][(Head(calls') \in SubmitTags /\ ~WillSend)
       => /\ store' = store
          /\ socks' = socks
          /\ calls' = <<Head(calls')>>]_vars

\* a clarification answered while disconnected: the request stays pending
C12_Witness ==
  /\ calls = <<"respond">>
  /\ store.wsStatus = "disconnected"
  /\ store.pendingClarification # NULL
  /\ Len(store.messages) > 0

(* C13: when the stream opens after connect(), the reconnect-attempt       *)
(* counter is 0, the keepalive timer is running and the connection status  *)
(* is connected.                                                           *)
C13_OpenMeansConnected ==
  [][Has(calls', "openObserver")
       => /\ svc'.reconnectAttempts = 0
          /\ svc'.pingInterval
          /\ store'.wsStatus = "connected"]_vars

(* C14: disconnect() from any state leaves the keepalive timer stopped, no *)
(* socket handle, no session binding and wsStatus = disconnected, and a    *)
(* second disconnect() changes nothing more.                               *)
TornDown(c) ==
  /\ ~c.svc.pingInterval
  /\ c.svc.socket = NoSocket
  /\ c.svc.currentSessionId = NULL
  /\ c.store.wsStatus = "disconnected"

SameState(c, d) ==
  /\ c.store = d.store
  /\ c.svc = d.svc
  /\ c.socks = d.socks
  /\ c.timers = d.timers

C14_DisconnectIdempotent ==
  /\ Head(calls) = "teardown" => TornDown(Begin("teardown"))
  /\ LET once == disconnect(Begin("teardown"))
         twice == disconnect(once)
     IN TornDown(once) /\ TornDown(twice) /\ SameState(once, twice)

\* disconnect() has run with the keepalive running, a socket open and a
\* reconnection timer pending
C14_Witness ==
  /\ Head(calls) = "teardown"
  /\ timers # <<>>
  /\ \E k \in SockIds : socks[k].ws = "closing" /\ socks[k].live
  /\ TornDown(Begin("teardown"))

(* C15: after an error envelope has been processed, recoverable or not,    *)
(* wsError holds the message of its payload.                               *)
C15_ErrorSurfaced ==
  Has(calls, "handleError") => store.wsError = ServerErrorMessage

C17_MalformedKeepsConnection ==
  [][(Head(calls') = "malformed" /\ store.wsStatus = "connected")
       => /\ store'.wsStatus = "connected"
          /\ \E k \in SockIds : socks'[k].ws = "open" /\ socks'[k].live]_vars

(* C18: an envelope whose type is none of the known server types is        *)
(* absorbed: the dispatcher only broadcasts it; wsStatus, wsError and      *)
(* every other store field, the service and the sockets stay as they were. *)
C18_UnknownAbsorbed ==
  [][Head(calls') = "unknown"
       => /\ calls' = <<"unknown", "broadcast">>
          /\ store' = store
          /\ svc' = svc
          /\ socks' = socks
          /\ timers' = timers]_vars

\* an unknown envelope has arrived in the middle of a turn
C18_Witness ==
  /\ Head(calls) = "unknown"
  /\ store.wsStatus = "connected"
  /\ store.isAgentThinking
  /\ Len(store.messages) = 2

(* C19: on an unclean socket close the keepalive timer is stopped and the  *)
(* reconnection policy runs: a reconnection is scheduled exactly when      *)
(* attempts remain and a session is bound (after an explicit disconnect()  *)
(* none is bound).  On a clean close the status becomes disconnected and   *)
(* no reconnection is scheduled.                                           *)
C19_ClosePolicy ==
  [][/\ Head(calls') = "uncleanClose"
          => /\ ~svc'.pingInterval
             /\ Has(calls', "schedule")
                  <=> (svc.reconnectAttempts < maxReconnectAttempts
                         /\ svc.currentSessionId # NULL)
             /\ Len(timers') = Len(timers) + (IF Has(calls', "schedule") THEN 1 ELSE 0)
     /\ Head(calls') = "cleanClose"
          => /\ store'.wsStatus = "disconnected"
             /\ ~svc'.pingInterval
             /\ ~Has(calls', "schedule")
             /\ timers' = timers]_vars

\* an established connection has dropped and its third retry in a row has
\* been scheduled
C19_Witness ==
  /\ Head(calls) = "uncleanClose"
  /\ Has(calls, "schedule")
  /\ svc.reconnectAttempts = 3
  /\ ~svc.pingInterval

(* C20: the keepalive timer is active only while wsStatus = connected, a   *)
(* ping envelope is transmitted only in such states, and an error envelope *)
(* that leaves connected without disconnecting (recoverable) cancels the   *)
(* timer.                                                                  *)
C20_KeepaliveOnlyConnected ==
  /\ (svc.pingInterval \/ Has(calls, "tx_ping")) => store.wsStatus = "connected"
  /\ (Has(calls, "handleError") /\ ~Has(calls, "disconnect")) => ~svc.pingInterval


(* C21: a transport fault is not fatal while reconnection attempts remain:  *)
(* an unclean close that schedules a reconnection does not leave wsStatus = *)
(* error, and a socket error or unclean close turns wsStatus into error     *)
(* only through the exhausted branch of the reconnection policy.            *)
TransportTags == {"error", "uncleanClose"}

C21_TransportErrorNonFatal ==
  [][Head(calls') \in TransportTags
       => /\ Has(calls', "schedule") => store'.wsStatus # "error"
          /\ (store.wsStatus # "error" /\ store'.wsStatus = "error")
               => Has(calls', "exhausted")]_vars


(* C22: every decoded envelope, of every type (pong, calculation and       *)
(* unknown types included), is emitted exactly once on onMessage$, before  *)
(* anything else is done with it, and is then handed to at most one        *)
(* handler, once.                                                          *)
EnvelopeTags == {"message", "unknown"}

HandlerNames ==
  {"handleConnected", "handleReasoningStep", "handleToken", "handleTokens",
   "handleClarificationRequest", "handleCalculation", "handleContextUpdated",
   "handleResponseComplete", "handleError"}

C22_BroadcastThenDispatch ==
  [][Head(calls') \in EnvelopeTags
       => /\ Len(calls') >= 2
          /\ calls'[2] = "broadcast"
          /\ \A i \in 3..Len(calls') : calls'[i] # "broadcast"
          /\ \A i \in 1..Len(calls') : calls'[i] \in HandlerNames => i = 3]_vars

\* a pong envelope has arrived in the middle of a turn: broadcast, no handler
C22_Witness ==
  /\ calls = <<"message", "broadcast">>
  /\ store.isAgentThinking
  /\ store.streamingContent = "a"


(* C23: a reconnection timer that fires connects with the credential held  *)
(* by the credential store at that moment (also when it was replaced while *)
(* the delay was pending), and does not connect when the store holds none. *)
C23_CredentialAtFireTime ==
  [][Head(calls') = "timer"
       => /\ Has(calls', "connect")
               => /\ accessToken # NULL
                  /\ svc'.socket \in SockIds
                  /\ socks'[svc'.socket].token = accessToken
          /\ accessToken = NULL => ~Has(calls', "connect")]_vars

\* a timer has fired and connected with credential t2, which replaced the
\* earlier one while the delay was pending
C23_Witness ==
  /\ Head(calls) = "timer"
  /\ Has(calls, "connect")
  /\ hist.replacedInBackoff
  /\ accessToken = "t2"
  /\ svc.socket \in SockIds
  /\ socks[svc.socket].token = "t2"


(* C24: a response_complete envelope processed when the last message is a  *)
(* streaming assistant message finalizes it in place: messages keeps its   *)
(* length and order and every other message, the last message keeps its    *)
(* id and role, has the final answer as content and isStreaming = FALSE,   *)
(* and afterwards isAgentThinking = FALSE and streamingContent is empty.   *)
FinalAnswer == "a"

C24_FinalizeInPlace ==
  [][(Has(calls', "handleResponseComplete") /\ LastIsStreamingAssistant)
       => LET n == Len(store.messages) IN
          /\ Len(store'.messages) = n
          /\ \A i \in 1..(n - 1) : store'.messages[i] = store.messages[i]
          /\ store'.messages[n].id = store.messages[n].id
          /\ store'.messages[n].role = "assistant"
          /\ store'.messages[n].content = FinalAnswer
          /\ ~store'.messages[n].isStreaming
          /\ ~store'.isAgentThinking
          /\ store'.streamingContent = ""]_vars

\* a turn of two messages has just been finalized
C24_Witness ==
  /\ Has(calls, "finalizeAssistantMessage")
  /\ Len(store.messages) = 2
  /\ store.messages[1].role = "user"
  /\ store.messages[2] = [id |-> 2, role |-> "assistant", content |-> FinalAnswer,
                          isStreaming |-> FALSE, followups |-> FALSE]
  /\ store.reasoningSteps # <<>>


(* C25 (as claimed): startAssistantMessage empties reasoningSteps and the  *)
(* accumulator and sets the thinking flag, and an entry leaves             *)
(* reasoningSteps only in an event that starts an assistant turn.          *)
StepIndexesOf(steps) == {steps[i].stepIndex : i \in 1..Len(steps)}

EntriesRemoved(before, after) == ~(StepIndexesOf(before) \subseteq StepIndexesOf(after))

TurnStartNames == {"sendQuery", "sendClarificationResponse"}

TurnStarted(log) == \E i \in 1..Len(log) : log[i] \in TurnStartNames

TurnStartResets ==
  TurnStarted(calls')
    => /\ store'.reasoningSteps = <<>>
       /\ store'.streamingContent = ""
       /\ store'.isAgentThinking

C25_TraceClearedOnlyAtTurnStart ==
  [][/\ TurnStartResets
     /\ EntriesRemoved(store.reasoningSteps, store'.reasoningSteps)
          => TurnStarted(calls')]_vars

(* C25 (amended): startAssistantMessage empties reasoningSteps and the     *)
(* accumulator and sets the thinking flag, and an entry leaves             *)
(* reasoningSteps only in an event that starts an assistant turn or clears *)
(* the chat state (a session switch, a logout); no envelope removes one.   *)
ChatClearTags == {"select", "logout"}

C25_TraceClearedAtTurnStartOrChatClear ==
  [][/\ TurnStartResets
     /\ EntriesRemoved(store.reasoningSteps, store'.reasoningSteps)
          => (TurnStarted(calls') \/ Head(calls') \in ChatClearTags)
     /\ Head(calls') \in EnvelopeTags
          => ~EntriesRemoved(store.reasoningSteps, store'.reasoningSteps)]_vars

\* a query has just been submitted: the trace and the accumulator are empty
\* and the agent is thinking
C25_Witness ==
  /\ Has(calls, "sendQuery")
  /\ store.reasoningSteps = <<>>
  /\ store.streamingContent = ""
  /\ store.isAgentThinking
  /\ Len(store.messages) = 2


(* C26: the accumulator is live only during a streaming turn: whenever     *)
(* streamingContent is non-empty, some assistant message has               *)
(* isStreaming = TRUE.                                                     *)
C26_AccumulatorOnlyWhileStreaming ==
  store.streamingContent # "" => StreamingAssistants # {}


(* C27: a failure of the history request started by a connected envelope   *)
(* changes nothing but the request itself: wsStatus, wsError and the rest  *)
(* of the store, the service (socket handle, keepalive, attempt counter)   *)
(* and the sockets stay as they were and no reconnection is scheduled, so  *)
(* a connection that was delivering envelopes still does.                  *)
C27_HistoryFailureHarmless ==
  [][Head(calls') = "historyError"
       => /\ store' = store
          /\ svc' = svc
          /\ socks' = socks
          /\ timers' = timers
          /\ ~Has(calls', "schedule")
          /\ \A k \in SockIds : Receiving(k) => (socks'[k].ws = "open" /\ socks'[k].live)]_vars

\* the history request has failed in the middle of a turn on a connected,
\* open socket
C27_Witness ==
  /\ Head(calls) = "historyError"
  /\ store.wsStatus = "connected"
  /\ store.isAgentThinking
  /\ svc.socket \in SockIds
  /\ socks[svc.socket].ws = "open"
  /\ socks[svc.socket].live


C29_ContextVersionMonotonic ==
  [][(store.currentSessionId # NULL /\ store'.currentSessionId = store.currentSessionId)
       => store'.contextVersion >= store.contextVersion]_vars


(* C30: a reconnection timer that was pending when disconnect() tore its   *)
(* connection down never calls connect() when it fires, also when an       *)
(* explicit connect() has bound a session again in the meantime; so it     *)
(* never tears down and replaces the newer connection.                     *)
C30_OrphanedTimerNeverConnects ==
  [][\A i \in 1..Len(timers) :
        (Head(calls') = "timer" /\ timers' = RemoveAt(timers, i) /\ hist.orphaned[i])
          => ~Has(calls', "connect")]_vars


(* C31: the late close event of a socket that is not the one the service   *)
(* holds (superseded by connect(), or torn down by disconnect()) leaves    *)
(* the current connection alone: wsStatus and the keepalive timer stay as  *)
(* they were, no reconnection is scheduled and the attempt counter is not  *)
(* touched.                                                                *)
CloseTags == {"cleanClose", "uncleanClose"}

\* the event is the close of a socket other than the one the service holds:
\* the close of the held socket leaves the handle without a socket
LateClose ==
  /\ Head(calls') \in CloseTags
  /\ svc.socket # DeadSocket
  /\ svc'.socket = svc.socket

C31_LateCloseInert ==
  [][LateClose
       => /\ store'.wsStatus = store.wsStatus
          /\ svc'.pingInterval = svc.pingInterval
          /\ ~Has(calls', "schedule")
          /\ svc'.reconnectAttempts = svc.reconnectAttempts
          /\ timers' = timers]_vars



(* C32: at most one reconnection timer is pending at any time, whatever    *)
(* the interleaving of unclean closes, timer fires, connect() and          *)
(* disconnect() calls.                                                     *)
C32_AtMostOneTimer == Len(timers) <= 1



(* C33: an explicit connect() starts with a full retry budget: when the    *)
(* connection it started closes uncleanly before it has opened (and before *)
(* any disconnect()), a reconnection with delay 2000 ms is scheduled,      *)
(* whatever happened to earlier connections (retries exhausted, or         *)
(* disconnect() called).                                                   *)
ExplicitPending == \E k \in SockIds : socks[k].explicit

C33_ExplicitConnectFullBudget ==
  [][(Head(calls') = "uncleanClose" /\ ExplicitPending /\ ~ExplicitPending')
       => /\ Has(calls', "schedule")
          /\ timers'[Len(timers')] = 2000]_vars



(* C34: with timers and transport events treated fairly, every             *)
(* reconnection sequence started by an unclean close and not cancelled by  *)
(* disconnect() eventually ends: wsStatus = connected, or wsStatus = error *)
(* with the retries exhausted.  It neither retries forever nor stalls.     *)
ReconnectionEnded ==
  \/ store.wsStatus = "connected"
  \/ /\ store.wsStatus = "error"
     /\ svc.reconnectAttempts = maxReconnectAttempts
     /\ timers = <<>>
  \/ svc.currentSessionId = NULL

C34_ReconnectionTerminates == Has(calls, "schedule") ~> ReconnectionEnded



(* C35: a turn interrupted by connection loss does not block the client:   *)
(* once a socket has closed uncleanly during a turn and a connected        *)
(* envelope has been processed after that, with the history request it     *)
(* started answered or failed and no other frame for the turn, the agent-  *)
(* thinking flag is FALSE (so canSendQuery holds when no clarification is  *)
(* pending).                                                               *)
C35_InterruptedTurnReleased ==
  (hist.interrupted = "reconnected" /\ store.wsStatus = "connected" /\ http = 0)
    => ~store.isAgentThinking



(* C36: a recoverable error envelope leaves the connection usable: the     *)
(* socket handle, the socket and the keepalive timer stay as they were,    *)
(* and a sendQuery called afterwards, with the socket still open, puts its *)
(* query envelope on the wire.                                             *)
QueryTags == {"send", "suggested", "followup"}

\* the last status written is that of a recoverable error envelope and the
\* socket the service holds is still open
AfterRecoverableError ==
  /\ store.wsStatus = "error"
  /\ store.wsError = ServerErrorMessage
  /\ svc.socket \in SockIds
  /\ socks[svc.socket].ws = "open"
  /\ socks[svc.socket].live

C36_RecoverableErrorKeepsUsable ==
  [][/\ (Has(calls', "handleError") /\ ~Has(calls', "disconnect"))
          => /\ svc'.socket = svc.socket
             /\ svc'.pingInterval = svc.pingInterval
             /\ socks' = socks
     /\ (Head(calls') \in QueryTags /\ AfterRecoverableError)
          => Has(calls', "tx_query")]_vars



(* C37: whenever the service holds a socket handle, the session it is      *)
(* bound to is the store's current session: no connection is kept for a    *)
(* session that is no longer current (deleted, set to null, logged out).   *)
C37_HandleBoundToCurrentSession ==
  svc.socket # NoSocket => svc.currentSessionId = store.currentSessionId



(* C38: in every reachable state where isAgentThinking is TRUE, messages   *)
(* is non-empty and its last element is an assistant message with          *)
(* isStreaming = TRUE.                                                     *)
C38_ThinkingHasPlaceholder == store.isAgentThinking => LastIsStreamingAssistant

\* a clarification has been answered: the agent is thinking again, with the
\* new placeholder after the user message and the first placeholder
C38_Witness ==
  /\ Has(calls, "sendClarificationResponse")
  /\ store.isAgentThinking
  /\ Len(store.messages) = 3
  /\ store.messages[1].role = "user"
  /\ LastMessage.role = "assistant"
  /\ LastMessage.isStreaming



(* C39: in every reachable state wsError is non-null only when             *)
(* wsStatus = error: every change of the status to disconnected,           *)
(* connecting or connected clears the last error message.                  *)
C39_ErrorOnlyInErrorStatus == store.wsError # NULL => store.wsStatus = "error"

\* a non-recoverable error envelope has been processed: its message was
\* stored and then cleared by the disconnect() of the same event
C39_Witness ==
  /\ Has(calls, "handleError")
  /\ Has(calls, "disconnect")
  /\ store.wsStatus = "disconnected"
  /\ store.wsError = NULL


====
